---- MODULE Spec2Model ----
(***************************************************************************)
(* The Record Service of pokemon_server/server.py: a process-wide mapping  *)
(* POKEMON_DATA and the four handlers registered on the MCP server         *)
(* (list_resources, read_resource, list_tools, call_tool).                 *)
(*                                                                         *)
(* Python strings are sequences of one-character strings, so that          *)
(* str.replace, str.lower, f-strings and json.dumps are computed character *)
(* by character.  Python dicts are insertion-ordered sequences of          *)
(* <<key, value>> pairs; a JSON-serialisable value carries its Python type *)
(* in the field t ("str", "int", "dict") and its content in the field v.   *)
(***************************************************************************)
EXTENDS Integers, Sequences, FiniteSets, TLC

VARIABLES data, req, resp

vars == <<data, req, resp>>

(***************************************************************************)
(* Strings                                                                 *)
(***************************************************************************)

\* The characters of a string literal, in order.
Chars(s) == [i \in 1..Len(s) |-> SubSeq(s, i, i)]

UpperCase == Chars("ABCDEFGHIJKLMNOPQRSTUVWXYZ")

LowerCase == Chars("abcdefghijklmnopqrstuvwxyz")

\* str.lower() on one character (the cased characters of the model are ASCII).
LowerChar(c) ==
    IF \E i \in 1..Len(UpperCase) : UpperCase[i] = c
    THEN LowerCase[CHOOSE i \in 1..Len(UpperCase) : UpperCase[i] = c]
    ELSE c

\* str.lower()
str_lower(s) == [i \in 1..Len(s) |-> LowerChar(s[i])]

\* s[i:].startswith(p), i counted from 1
StartsAt(s, i, p) ==
    /\ i + Len(p) - 1 <= Len(s)
    /\ \A k \in 1..Len(p) : s[i + k - 1] = p[k]

RECURSIVE ReplaceFrom(_, _, _, _)
\* str.replace scans left to right and replaces every non-overlapping
\* occurrence of old (old is non-empty here).
ReplaceFrom(s, i, old, new) ==
    IF i > Len(s) THEN <<>>
    ELSE IF StartsAt(s, i, old)
         THEN new \o ReplaceFrom(s, i + Len(old), old, new)
         ELSE <<s[i]>> \o ReplaceFrom(s, i + 1, old, new)

\* s.replace(old, new)
str_replace(s, old, new) == ReplaceFrom(s, 1, old, new)

(***************************************************************************)
(* Dicts                                                                   *)
(***************************************************************************)

PyStr(s) == [t |-> "str", v |-> s]

PyInt(n) == [t |-> "int", v |-> n]

PyDict(pairs) == [t |-> "dict", v |-> pairs]

\* list(d.keys())
Keys(d) == [i \in 1..Len(d.v) |-> d.v[i][1]]

\* k in d
Has(d, k) == \E i \in 1..Len(d.v) : d.v[i][1] = k

\* d[k], for k in d
Get(d, k) == d.v[CHOOSE i \in 1..Len(d.v) : d.v[i][1] = k][2]

(***************************************************************************)
(* json.dumps(obj, indent=2)                                               *)
(***************************************************************************)

\* json.encoder's ESCAPE_ASCII table (ensure_ascii is left at True), for the
\* characters that need an escape among those the model's strings hold:
\* the quote, the backslash, the control characters TLA+ can write, and the
\* one non-ASCII character of POKEMON_DATA.
EscapeTable ==
    << <<"\"", Chars("\\\"")>>,
       <<"\\", Chars("\\\\")>>,
       <<"\n", Chars("\\n")>>,
       <<"\r", Chars("\\r")>>,
       <<"\t", Chars("\\t")>>,
       <<"\f", Chars("\\f")>>,
       <<"é", Chars("\\u00e9")>> >>

\* ESCAPE_ASCII's replacement of one character
EscapeChar(c) ==
    IF \E i \in 1..Len(EscapeTable) : EscapeTable[i][1] = c
    THEN EscapeTable[CHOOSE i \in 1..Len(EscapeTable) : EscapeTable[i][1] = c][2]
    ELSE <<c>>

RECURSIVE EscapeRange(_, _, _)
\* the replacements of s[lo..hi], concatenated (halving keeps the evaluation
\* shallow on long strings)
EscapeRange(s, lo, hi) ==
    IF lo > hi THEN <<>>
    ELSE IF lo = hi THEN EscapeChar(s[lo])
    ELSE LET mid == (lo + hi) \div 2
         IN  EscapeRange(s, lo, mid) \o EscapeRange(s, mid + 1, hi)

\* py_encode_basestring_ascii: the quoted, escaped string
encode_str(s) == <<"\"">> \o EscapeRange(s, 1, Len(s)) \o <<"\"">>

Digits == Chars("0123456789")

RECURSIVE NatRepr(_)
NatRepr(n) ==
    IF n < 10 THEN <<Digits[n + 1]>>
    ELSE NatRepr(n \div 10) \o <<Digits[(n % 10) + 1]>>

\* int.__repr__
encode_int(n) == IF n < 0 THEN <<"-">> \o NatRepr(-n) ELSE NatRepr(n)

RECURSIVE Spaces(_)
Spaces(n) == IF n = 0 THEN <<>> ELSE <<" ">> \o Spaces(n - 1)

\* "\n" followed by the indentation of one nesting level
NewlineIndent(indent, level) == <<"\n">> \o Spaces(indent * level)

RECURSIVE Encode(_, _, _), EncodeItems(_, _, _, _)
\* _make_iterencode's _iterencode / _iterencode_dict, joined
Encode(o, indent, level) ==
    IF o.t = "str" THEN encode_str(o.v)
    ELSE IF o.t = "int" THEN encode_int(o.v)
    ELSE IF Len(o.v) = 0 THEN Chars("{}")
    ELSE <<"{">> \o NewlineIndent(indent, level + 1)
         \o EncodeItems(o.v, 1, indent, level + 1)
         \o NewlineIndent(indent, level) \o <<"}">>

\* the items from the i-th on, joined by the item separator "," and a newline
EncodeItems(pairs, i, indent, level) ==
    encode_str(pairs[i][1]) \o Chars(": ") \o Encode(pairs[i][2], indent, level)
    \o (IF i = Len(pairs) THEN <<>>
        ELSE <<",">> \o NewlineIndent(indent, level)
             \o EncodeItems(pairs, i + 1, indent, level))

\* json.dumps(obj, indent=indent)
json_dumps(obj, indent) == Encode(obj, indent, 0)

(***************************************************************************)
(* The mapping and the handlers                                            *)
(***************************************************************************)

POKEMON_DATA ==
    PyDict(<<
        <<Chars("pikachu"), PyDict(<<
            <<Chars("name"), PyStr(Chars("Pikachu"))>>,
            <<Chars("type"), PyStr(Chars("Electric"))>>,
            <<Chars("description"), PyStr(Chars("A Mouse Pokémon. It can generate electric attacks from the electric pouches located in both of its cheeks."))>>,
            <<Chars("stats"), PyDict(<<
                <<Chars("hp"), PyInt(35)>>,
                <<Chars("attack"), PyInt(55)>>,
                <<Chars("defense"), PyInt(40)>>,
                <<Chars("speed"), PyInt(90)>> >>)>> >>)>> >>)

\* The literal "pokemon://" of list_resources' f-string and of read_resource's
\* replace.
SchemePrefix == Chars("pokemon://")

\* pydantic's AnyUrl, a library type: the model keeps the text the URL prints
\* as, and takes that to be the text it was built from.
AnyUrl(text) == [url |-> text]

\* str(uri)
url_str(uri) == uri.url

\* What a handler hands back to the server: a value, or a raised exception
\* with str(exception).
Return(value) == [kind |-> "return", value |-> value]

Raise(exc, msg) == [kind |-> "raise", exc |-> exc, msg |-> msg]

Resource(uri, name, mimeType, description) ==
    [uri |-> uri, name |-> name, mimeType |-> mimeType, description |-> description]

TextContent(type, text) == [type |-> type, text |-> text]

\* list_resources(): one Resource per item of the mapping, in its order
list_resources(d) ==
    Return([i \in 1..Len(d.v) |->
        LET pokemon_id == d.v[i][1]
            rec == d.v[i][2]
        IN  Resource(AnyUrl(SchemePrefix \o pokemon_id),
                     Get(rec, Chars("name")).v,
                     Chars("application/json"),
                     Chars("Information about ") \o Get(rec, Chars("name")).v)])

\* read_resource as it would be if it serialized the record's "stats" entry
\* instead of the record.
read_resource_stats_only(d, uri) ==
    LET pokemon_id == str_replace(url_str(uri), SchemePrefix, <<>>)
    IN  IF ~Has(d, pokemon_id)
        THEN Raise("ValueError", Chars("Unknown Pokemon: ") \o pokemon_id)
        ELSE Return(json_dumps(Get(Get(d, pokemon_id), Chars("stats")), 2))

\* read_resource as it would be if it lower-cased the identifier, the way
\* call_tool does.
read_resource_lowering(d, uri) ==
    LET pokemon_id == str_lower(str_replace(url_str(uri), SchemePrefix, <<>>))
    IN  IF ~Has(d, pokemon_id)
        THEN Raise("ValueError", Chars("Unknown Pokemon: ") \o pokemon_id)
        ELSE Return(json_dumps(Get(d, pokemon_id), 2))

\* read_resource(uri)
read_resource(d, uri) ==
    LET pokemon_id == str_replace(url_str(uri), SchemePrefix, <<>>)
    IN  IF ~Has(d, pokemon_id)
        THEN Raise("ValueError", Chars("Unknown Pokemon: ") \o pokemon_id)
        ELSE Return(json_dumps(Get(d, pokemon_id), 2))

\* list_tools(): the one Tool, with its input schema as the Python dict it is
list_tools ==
    Return(<< [name |-> Chars("get_stats"),
               description |-> Chars("Get detailed stats for a specific Pokemon"),
               inputSchema |-> PyDict(<<
                   <<Chars("type"), PyStr(Chars("object"))>>,
                   <<Chars("properties"), PyDict(<<
                       <<Chars("pokemon"), PyDict(<<
                           <<Chars("type"), PyStr(Chars("string"))>>,
                           <<Chars("description"), PyStr(Chars("Name of the Pokemon (e.g., pikachu, charizard)"))>> >>)>> >>)>>,
                   <<Chars("required"), <<Chars("pokemon")>> >> >>)] >>)

\* call_tool as it would be if it read arguments["pokemon"] before it looked
\* at the tool's name.
call_tool_arguments_first(d, name, arguments) ==
    IF ~Has(arguments, Chars("pokemon"))
    THEN Raise("KeyError", Chars("'pokemon'"))
    ELSE LET pokemon_name == str_lower(Get(arguments, Chars("pokemon")).v)
         IN  IF name # Chars("get_stats")
             THEN Raise("ValueError", Chars("Unknown tool: ") \o name)
             ELSE IF ~Has(d, pokemon_name)
             THEN Return(<<TextContent(Chars("text"),
                     json_dumps(PyDict(<< <<Chars("error"),
                         PyStr(Chars("Pokemon ") \o pokemon_name \o Chars(" not found"))>> >>), 2))>>)
             ELSE LET stats == PyDict(<<
                          <<Chars("name"), Get(Get(d, pokemon_name), Chars("name"))>>,
                          <<Chars("stats"), Get(Get(d, pokemon_name), Chars("stats"))>> >>)
                  IN  Return(<<TextContent(Chars("text"), json_dumps(stats, 2))>>)

\* call_tool as it would be if get_stats serialized the whole record.
call_tool_whole_record(d, name, arguments) ==
    IF name = Chars("get_stats")
    THEN IF ~Has(arguments, Chars("pokemon"))
         THEN Raise("KeyError", Chars("'pokemon'"))
         ELSE LET pokemon_name == str_lower(Get(arguments, Chars("pokemon")).v)
              IN  IF ~Has(d, pokemon_name)
                  THEN Return(<<TextContent(Chars("text"),
                          json_dumps(PyDict(<< <<Chars("error"),
                              PyStr(Chars("Pokemon ") \o pokemon_name \o Chars(" not found"))>> >>), 2))>>)
                  ELSE Return(<<TextContent(Chars("text"),
                          json_dumps(Get(d, pokemon_name), 2))>>)
    ELSE Raise("ValueError", Chars("Unknown tool: ") \o name)

\* call_tool as it would be without the .lower() on the argument.
call_tool_exact_case(d, name, arguments) ==
    IF name = Chars("get_stats")
    THEN IF ~Has(arguments, Chars("pokemon"))
         THEN Raise("KeyError", Chars("'pokemon'"))
         ELSE LET pokemon_name == Get(arguments, Chars("pokemon")).v
              IN  IF ~Has(d, pokemon_name)
                  THEN Return(<<TextContent(Chars("text"),
                          json_dumps(PyDict(<< <<Chars("error"),
                              PyStr(Chars("Pokemon ") \o pokemon_name \o Chars(" not found"))>> >>), 2))>>)
                  ELSE LET stats == PyDict(<<
                               <<Chars("name"), Get(Get(d, pokemon_name), Chars("name"))>>,
                               <<Chars("stats"), Get(Get(d, pokemon_name), Chars("stats"))>> >>)
                       IN  Return(<<TextContent(Chars("text"), json_dumps(stats, 2))>>)
    ELSE Raise("ValueError", Chars("Unknown tool: ") \o name)

\* call_tool(name, arguments); arguments["pokemon"] on a dict without the key
\* raises KeyError, whose str is the repr of the key.
call_tool(d, name, arguments) ==
    IF name = Chars("get_stats")
    THEN IF ~Has(arguments, Chars("pokemon"))
         THEN Raise("KeyError", Chars("'pokemon'"))
         ELSE LET pokemon_name == str_lower(Get(arguments, Chars("pokemon")).v)
              IN  IF ~Has(d, pokemon_name)
                  THEN Return(<<TextContent(Chars("text"),
                          json_dumps(PyDict(<< <<Chars("error"),
                              PyStr(Chars("Pokemon ") \o pokemon_name \o Chars(" not found"))>> >>), 2))>>)
                  ELSE LET stats == PyDict(<<
                               <<Chars("name"), Get(Get(d, pokemon_name), Chars("name"))>>,
                               <<Chars("stats"), Get(Get(d, pokemon_name), Chars("stats"))>> >>)
                       IN  Return(<<TextContent(Chars("text"), json_dumps(stats, 2))>>)
    ELSE Raise("ValueError", Chars("Unknown tool: ") \o name)

(***************************************************************************)
(* The requests the transport delivers                                     *)
(***************************************************************************)

\* The longest identifier tried, in pieces.
MaxParts == 2

\* The pieces identifiers are built from: the stored key, a spelling of it in
\* another case, an unknown name in two cases, and the scheme prefix itself.
Parts ==
    { Chars("pikachu"), Chars("Pikachu"), Chars("missingno"), Chars("MissingNo"),
      SchemePrefix }

RECURSIVE TextsOf(_)
\* every concatenation of at most n pieces
TextsOf(n) ==
    IF n = 0 THEN {<<>>}
    ELSE TextsOf(n - 1) \cup {t \o p : t \in TextsOf(n - 1), p \in Parts}

Identifiers == TextsOf(MaxParts)

\* the URI a client builds for an identifier
UriOf(id) == AnyUrl(SchemePrefix \o id)

ToolNames == { Chars("get_stats"), Chars("GET_STATS"), Chars("bogus_tool") }

\* the arguments dicts: {} and {"pokemon": <text>}
ArgumentsOf(t) == PyDict(<< <<Chars("pokemon"), PyStr(t)>> >>)

ArgumentValues == {PyDict(<<>>)} \cup {ArgumentsOf(t) : t \in Identifiers}

Init ==
    /\ data = POKEMON_DATA
    /\ req = [op |-> "start"]
    /\ resp = [kind |-> "none"]

ListResources ==
    /\ req' = [op |-> "list_resources"]
    /\ resp' = list_resources(data)
    /\ UNCHANGED data

\* d after d.pop(k, None)
Without(d, k) == PyDict(SelectSeq(d.v, LAMBDA pair : pair[1] # k))

\* The read handler as it would be if it popped the entry it served.
ReadResourceEvicting(uri) ==
    /\ req' = [op |-> "read_resource", uri |-> uri]
    /\ resp' = read_resource(data, uri)
    /\ data' = Without(data, str_replace(url_str(uri), SchemePrefix, <<>>))

ReadResource(uri) ==
    /\ req' = [op |-> "read_resource", uri |-> uri]
    /\ resp' = read_resource(data, uri)
    /\ UNCHANGED data

ListTools ==
    /\ req' = [op |-> "list_tools"]
    /\ resp' = list_tools
    /\ UNCHANGED data

\* The tool handler as it would be if get_stats popped the entry it served.
CallToolEvicting(name, arguments) ==
    /\ req' = [op |-> "call_tool", name |-> name, arguments |-> arguments]
    /\ resp' = call_tool(data, name, arguments)
    /\ data' = IF name = Chars("get_stats") /\ Has(arguments, Chars("pokemon"))
               THEN Without(data, str_lower(Get(arguments, Chars("pokemon")).v))
               ELSE data

CallTool(name, arguments) ==
    /\ req' = [op |-> "call_tool", name |-> name, arguments |-> arguments]
    /\ resp' = call_tool(data, name, arguments)
    /\ UNCHANGED data

Next ==
    \/ ListResources
    \/ \E id \in Identifiers : ReadResource(UriOf(id))
    \/ ListTools
    \/ \E name \in ToolNames, arguments \in ArgumentValues : CallTool(name, arguments)

Spec == Init /\ [][Next]_vars

(***************************************************************************)
(* Decoding a payload: what a client's json.loads makes of a text.  The    *)
(* handlers never decode; the properties below do, to say what a payload   *)
(* holds.                                                                  *)
(***************************************************************************)

Whitespace == {" ", "\n", "\r", "\t"}

Invalid == [t |-> "invalid", v |-> <<>>]

\* the first index from i on that holds no whitespace (Len(t) + 1 if none)
SkipWs(t, i) ==
    CHOOSE j \in i..(Len(t) + 1) :
        /\ \A k \in i..(j - 1) : t[k] \in Whitespace
        /\ j <= Len(t) => t[j] \notin Whitespace

\* the number of backslashes that end right before index k, counted back to
\* index lo at most
BackslashRun(t, lo, k) ==
    Cardinality({n \in 1..(k - lo) : \A m \in 1..n : t[k - m] = "\\"})

\* index k holds a quote that no backslash escapes, in a string that opened
\* at index open
ClosesString(t, open, k) ==
    t[k] = "\"" /\ BackslashRun(t, open + 1, k) % 2 = 0

HasStringEnd(t, open) == \E j \in (open + 1)..Len(t) : ClosesString(t, open, j)

\* the index of the quote closing the string that opens at index open
StringEnd(t, open) ==
    CHOOSE j \in (open + 1)..Len(t) :
        /\ ClosesString(t, open, j)
        /\ \A k \in (open + 1)..(j - 1) : ~ClosesString(t, open, k)

\* index p starts an escape sequence of a string body that starts at lo
EscapeStartsAt(t, lo, p) == t[p] = "\\" /\ BackslashRun(t, lo, p) % 2 = 0

KnownEscapeAt(t, p) == \E e \in 1..Len(EscapeTable) : StartsAt(t, p, EscapeTable[e][2])

EscapeAt(t, p) ==
    EscapeTable[CHOOSE e \in 1..Len(EscapeTable) : StartsAt(t, p, EscapeTable[e][2])]

\* index p lies inside an escape sequence that started before it
InsideEscape(t, lo, p) ==
    \E q \in lo..(p - 1) :
        /\ p - q <= 5
        /\ EscapeStartsAt(t, lo, q)
        /\ KnownEscapeAt(t, q)
        /\ q + Len(EscapeAt(t, q)[2]) > p

\* what index p of a string body contributes to the decoded string
DecodedAt(t, lo, p) ==
    IF InsideEscape(t, lo, p) THEN <<>>
    ELSE IF EscapeStartsAt(t, lo, p) /\ KnownEscapeAt(t, p) THEN <<EscapeAt(t, p)[1]>>
    ELSE <<t[p]>>

RECURSIVE DecodeRange(_, _, _, _)
DecodeRange(t, lo, a, b) ==
    IF a > b THEN <<>>
    ELSE IF a = b THEN DecodedAt(t, lo, a)
    ELSE LET mid == (a + b) \div 2
         IN  DecodeRange(t, lo, a, mid) \o DecodeRange(t, lo, mid + 1, b)

IsDigit(c) == \E i \in 1..Len(Digits) : Digits[i] = c

DigitValue(c) == (CHOOSE i \in 1..Len(Digits) : Digits[i] = c) - 1

\* the first index from i on that holds no digit
DigitsEnd(t, i) ==
    CHOOSE j \in i..(Len(t) + 1) :
        /\ \A k \in i..(j - 1) : IsDigit(t[k])
        /\ j <= Len(t) => ~IsDigit(t[j])

RECURSIVE NatValue(_, _, _)
\* the number the digits t[a..b] write
NatValue(t, a, b) ==
    IF a > b THEN 0 ELSE 10 * NatValue(t, a, b - 1) + DigitValue(t[b])

Parsed(val, pos) == [val |-> val, pos |-> pos]

Failed(t) == Parsed(Invalid, Len(t) + 2)

RECURSIVE ParseValue(_, _), ParseMembers(_, _, _)
\* the value that starts at index i, and the index after it
ParseValue(t, i) ==
    IF i > Len(t) THEN Failed(t)
    ELSE IF t[i] = "\""
    THEN IF HasStringEnd(t, i)
         THEN LET j == StringEnd(t, i)
              IN  Parsed(PyStr(DecodeRange(t, i + 1, i + 1, j - 1)), j + 1)
         ELSE Failed(t)
    ELSE IF t[i] = "{" THEN ParseMembers(t, SkipWs(t, i + 1), <<>>)
    ELSE IF IsDigit(t[i])
    THEN LET j == DigitsEnd(t, i) IN Parsed(PyInt(NatValue(t, i, j - 1)), j)
    ELSE IF t[i] = "-" /\ i < Len(t) /\ IsDigit(t[i + 1])
    THEN LET j == DigitsEnd(t, i + 1) IN Parsed(PyInt(0 - NatValue(t, i + 1, j - 1)), j)
    ELSE Failed(t)

\* the members of an object from index i on, after the members acc
ParseMembers(t, i, acc) ==
    IF i > Len(t) THEN Failed(t)
    ELSE IF t[i] = "}" /\ Len(acc) = 0 THEN Parsed(PyDict(acc), i + 1)
    ELSE IF t[i] = "\"" /\ HasStringEnd(t, i)
    THEN LET j == StringEnd(t, i)
             key == DecodeRange(t, i + 1, i + 1, j - 1)
             colon == SkipWs(t, j + 1)
         IN  IF colon > Len(t) \/ t[colon] # ":" THEN Failed(t)
             ELSE LET member == ParseValue(t, SkipWs(t, colon + 1))
                      after == SkipWs(t, member.pos)
                  IN  IF member.val = Invalid \/ after > Len(t) THEN Failed(t)
                      ELSE IF t[after] = ","
                      THEN ParseMembers(t, SkipWs(t, after + 1),
                                        Append(acc, <<key, member.val>>))
                      ELSE IF t[after] = "}"
                      THEN Parsed(PyDict(Append(acc, <<key, member.val>>)), after + 1)
                      ELSE Failed(t)
    ELSE Failed(t)

\* json.loads(t)
json_loads(t) ==
    LET top == ParseValue(t, SkipWs(t, 1))
    IN  IF top.pos <= Len(t) + 1 /\ SkipWs(t, top.pos) = Len(t) + 1
        THEN top.val ELSE Invalid

(***************************************************************************)
(* Properties                                                              *)
(***************************************************************************)

IsRead == req.op = "read_resource"

\* the identifier the client put after the scheme prefix of the URI read
RequestedId == SubSeq(url_str(req.uri), Len(SchemePrefix) + 1, Len(url_str(req.uri)))

IsGetStats ==
    /\ req.op = "call_tool"
    /\ req.name = Chars("get_stats")
    /\ Has(req.arguments, Chars("pokemon"))

\* the "pokemon" argument of the call, as the client gave it
RequestedName == Get(req.arguments, Chars("pokemon")).v

\* the response is one text block
IsOneTextBlock ==
    /\ resp.kind = "return"
    /\ Len(resp.value) = 1
    /\ resp.value[1].type = Chars("text")

NotFoundError(id) == Raise("ValueError", Chars("Unknown Pokemon: ") \o id)

SoftFailure(name) ==
    PyDict(<< <<Chars("error"), PyStr(Chars("Pokemon ") \o name \o Chars(" not found"))>> >>)

\* C1: reading the URI built from a key of the mapping succeeds, the payload
\* decodes to that key's full record (name, type, description, stats), and
\* the decoded "name" is the record's display name.
C1_ReadOfKeyReturnsRecord ==
    (IsRead /\ Has(POKEMON_DATA, RequestedId)) =>
        /\ resp.kind = "return"
        /\ json_loads(resp.value) = Get(POKEMON_DATA, RequestedId)
        /\ Keys(json_loads(resp.value))
             = <<Chars("name"), Chars("type"), Chars("description"), Chars("stats")>>
        /\ Get(json_loads(resp.value), Chars("name"))
             = Get(Get(POKEMON_DATA, RequestedId), Chars("name"))

C1_Witness ==
    /\ IsRead
    /\ RequestedId = Chars("pikachu")
    /\ resp.kind = "return"
    /\ Get(json_loads(resp.value), Chars("name")) = PyStr(Chars("Pikachu"))

\* C2: reading the URI built from an identifier that is no key of the mapping
\* raises the not-found error carrying exactly that identifier, and never
\* returns a record.
C2_ReadOfNonKeyRaisesWithIdentifier ==
    (IsRead /\ ~Has(POKEMON_DATA, RequestedId)) => resp = NotFoundError(RequestedId)

C4_UnknownToolRaises ==
    (req.op = "call_tool" /\ req.name # Chars("get_stats")) =>
        resp = Raise("ValueError", Chars("Unknown tool: ") \o req.name)

C4_Witness ==
    /\ req.op = "call_tool"
    /\ req.name = Chars("bogus_tool")
    /\ req.arguments = PyDict(<<>>)
    /\ resp.kind = "raise"

\* C5: get_stats with a name whose lower-cased form is a key returns one text
\* block whose payload has exactly the fields "name" (the display name) and
\* "stats" (the record's stats, unchanged), without type or description.
C5_GetStatsReturnsNameAndStats ==
    (IsGetStats /\ Has(POKEMON_DATA, str_lower(RequestedName))) =>
        /\ IsOneTextBlock
        /\ json_loads(resp.value[1].text) =
             PyDict(<<
                <<Chars("name"),
                  Get(Get(POKEMON_DATA, str_lower(RequestedName)), Chars("name"))>>,
                <<Chars("stats"),
                  Get(Get(POKEMON_DATA, str_lower(RequestedName)), Chars("stats"))>> >>)

C5_Witness ==
    /\ IsGetStats
    /\ RequestedName = Chars("Pikachu")
    /\ IsOneTextBlock
    /\ Keys(json_loads(resp.value[1].text)) = <<Chars("name"), Chars("stats")>>

\* C6: two names that differ only in letter case get identical get_stats
\* responses, and the response is the record view exactly when the
\* lower-cased name equals a stored key.
C6_GetStatsIgnoresCase ==
    IsGetStats =>
        /\ \A other \in Identifiers :
              str_lower(other) = str_lower(RequestedName) =>
                  call_tool(data, req.name, ArgumentsOf(other)) = resp
        /\ IsOneTextBlock
        /\ Has(json_loads(resp.value[1].text), Chars("name"))
             <=> (\E i \in 1..Len(POKEMON_DATA.v) :
                     POKEMON_DATA.v[i][1] = str_lower(RequestedName))

C6_Witness ==
    /\ IsGetStats
    /\ RequestedName = Chars("Pikachu")
    /\ resp = call_tool(data, req.name, ArgumentsOf(Chars("pikachu")))
    /\ Has(json_loads(resp.value[1].text), Chars("name"))

\* C7: list_resources returns one descriptor per entry of the mapping, with
\* the URI "pokemon://" + key, the display name and "application/json",
\* whatever calls came before.
C7_ListResourcesIsStable ==
    req.op = "list_resources" =>
        /\ resp.kind = "return"
        /\ Len(resp.value) = Len(POKEMON_DATA.v)
        /\ \A i \in 1..Len(POKEMON_DATA.v) :
              /\ resp.value[i].uri = AnyUrl(SchemePrefix \o POKEMON_DATA.v[i][1])
              /\ resp.value[i].name = Get(POKEMON_DATA.v[i][2], Chars("name")).v
              /\ resp.value[i].mimeType = Chars("application/json")

C7_Witness ==
    /\ req.op = "list_resources"
    /\ resp.kind = "return"
    /\ Len(resp.value) = 1
    /\ resp.value[1].uri = AnyUrl(Chars("pokemon://pikachu"))

\* what a handler answers to request r on the mapping as initialized
Answer(r) ==
    CASE r.op = "list_resources" -> list_resources(POKEMON_DATA)
      [] r.op = "read_resource" -> read_resource(POKEMON_DATA, r.uri)
      [] r.op = "list_tools" -> list_tools
      [] r.op = "call_tool" -> call_tool(POKEMON_DATA, r.name, r.arguments)

\* C8: no handler changes the mapping, whether it returns, returns the soft
\* failure or raises, so every response is the answer to its own request on
\* the mapping as initialized.
C8_MappingNeverMutated ==
    /\ data = POKEMON_DATA
    /\ req.op # "start" => resp = Answer(req)

C8_Witness ==
    /\ IsGetStats
    /\ RequestedName = Chars("pikachu")
    /\ resp.kind = "return"
    /\ data = POKEMON_DATA

\* C9: for the URI prefix + s the identifier looked up, and carried by the
\* not-found error, is exactly s, a further "pokemon://" inside s included.
C9_IdentifierIsUriAfterPrefix ==
    IsRead =>
        resp = IF Has(POKEMON_DATA, RequestedId)
               THEN Return(json_dumps(Get(POKEMON_DATA, RequestedId), 2))
               ELSE NotFoundError(RequestedId)

KeysUniqueAndLowercase ==
    /\ \A i, j \in 1..Len(data.v) : data.v[i][1] = data.v[j][1] => i = j
    /\ \A i \in 1..Len(data.v) : str_lower(data.v[i][1]) = data.v[i][1]

\* C10 as stated: the keys are unique and lowercase, and reading a URI whose
\* identifier differs from a key only in letter case returns that key's record.
C10_ReadIgnoresCase ==
    /\ KeysUniqueAndLowercase
    /\ (IsRead /\ Has(POKEMON_DATA, str_lower(RequestedId))) =>
          resp = Return(json_dumps(Get(POKEMON_DATA, str_lower(RequestedId)), 2))

\* C10 as amended: the keys are unique and lowercase, and reading is exact: a
\* URI whose identifier is a key returns its record, and one whose identifier
\* differs from a key in letter case only raises the not-found error carrying
\* the identifier as given.
C10_ReadIsCaseSensitive ==
    /\ KeysUniqueAndLowercase
    /\ (IsRead /\ Has(POKEMON_DATA, str_lower(RequestedId))) =>
          resp = IF Has(POKEMON_DATA, RequestedId)
                 THEN Return(json_dumps(Get(POKEMON_DATA, RequestedId), 2))
                 ELSE NotFoundError(RequestedId)

C10_Witness ==
    /\ IsRead
    /\ RequestedId = Chars("Pikachu")
    /\ resp = NotFoundError(Chars("Pikachu"))

====
